---- MODULE Spec2Model ----
(***************************************************************************)
(* SpeakSense hybrid retrieval engine: the document store (FAQ / Intent    *)
(* tables), the lexical index (BM25Search), the semantic index             *)
(* (VectorSearch over a ChromaDB collection) and the fusion orchestrator   *)
(* (HybridRetrieval).                                                      *)
(*                                                                         *)
(* Numbers: BM25 scores are integers, similarities are hundredths          *)
(* (similarity = 100 - distance), weights are tenths, and every score a    *)
(* search returns is an exact fraction <<numerator, denominator>>.         *)
(***************************************************************************)
EXTENDS Integers, Sequences, FiniteSets, TLC

VARIABLES
    faqs,          \* faq table, newest first (get_all_faqs: ORDER BY created_at DESC)
    intents,       \* intent table, newest first
    nops,          \* number of store mutations performed so far (bounded)
    bm25_search,   \* BM25Search object: corpus, tokenized_corpus, bm25, initialized
    collection,    \* VectorSearch.collection: the items of the ChromaDB collection
    started,       \* the retrieval service has run its startup event
    rbpc,          \* position inside HybridRetrieval.rebuild_indices
    hist,          \* history: store snapshot / collection seen by the running rebuild;
                   \* rebuilds: how many rebuild_indices calls in a row have returned
                   \* with no write to the store since the first was called;
                   \* written: the store was written while the running call was between
                   \* its two statements
    last,          \* outcome of the search call that has just returned
    cfg,           \* HybridRetrieval.bm25_weight / vector_weight, in tenths
    fz,            \* inputs and output of one _fuse_scores call (SpecFuse)
    px,            \* inputs and output of one ParameterExtractor call (SpecExtract)
    adm,           \* the admin request on the intent table that has just been answered (SpecIntents)
    vad,           \* the VADDetector of the streaming connection, or NoVad (SpecStream)
    nz,            \* input and output of one _normalize_scores call (SpecNormalize)
    ws             \* the /asr/stream connection: its state, vad_config, the messages sent
                   \* for the last received one, the last process_chunk result (SpecStream)

vars == <<faqs, intents, nops, bm25_search, collection, started, rbpc, hist, last, cfg, fz, px, adm,
          vad, nz, ws>>

-----------------------------------------------------------------------------
(* Bounds of the model *)
MaxOps == 2        \* store mutations (create / update / delete) per behaviour
MaxTopK == 2       \* top_k ranges over 0..MaxTopK
MaxRebuilds == 2   \* cap of the count of rebuild_indices calls in a row
MaxCands == 2      \* length of each candidate list handed to _fuse_scores in SpecFuse

(* Program constants *)
DefaultBm25Weight == 3      \* 0.3, in tenths
DefaultVectorWeight == 7    \* 0.7, in tenths
TopKBm25 == 10
TopKVector == 10
OverFetch == 2              \* n_results = top_k * 2

Ids == {"u1", "u2"}                  \* values uuid.uuid4() may return
Names == {"n1", "n2"}                \* intent names
Methods == {"bm25", "vector", "hybrid"}
Queries == {"", " ", "wifi"}
FaqContents ==
    { [question |-> "wifi", alternative_questions |-> <<"wifi hours">>],
      [question |-> "hours", alternative_questions |-> <<>>] }
TriggerLists == { <<>>, <<"wifi", "wifi hours">> }

-----------------------------------------------------------------------------
(* Generic helpers *)

Range(s) == { s[i] : i \in 1..Len(s) }

Prefix(s, n) == SubSeq(s, 1, IF n < Len(s) THEN n ELSE Len(s))

RECURSIVE Concat(_)
Concat(ss) == IF ss = <<>> THEN <<>> ELSE Head(ss) \o Concat(Tail(ss))

Perms(S) == { p \in [1..Cardinality(S) -> S] : \A x \in S : \E i \in DOMAIN p : p[i] = x }

\* a / b > c / d  and  a / b = c / d  for positive denominators
FracGt(x, y) == x[1] * y[2] > y[1] * x[2]
FracEq(x, y) == x[1] * y[2] = y[1] * x[2]

\* sorted(range(len(s)), key, reverse=True): Python's sort is stable, so equal
\* keys keep their input order.  Position of element i in the sorted output.
SortedPos(s, i) ==
    1 + Cardinality({ j \in 1..Len(s) : FracGt(s[j].score, s[i].score) })
      + Cardinality({ j \in 1..(i - 1) : FracEq(s[j].score, s[i].score) })

StableSortDesc(s) ==
    [ k \in 1..Len(s) |-> s[CHOOSE i \in 1..Len(s) : SortedPos(s, i) = k] ]

-----------------------------------------------------------------------------
(* Text: str.strip and the preprocessor *)

\* mutant: the query used as it is
StripNothing(q) == q

\* str.strip on the texts of the model
Strip(q) == IF q = " " THEN "" ELSE q

\* preprocessor.preprocess_for_bm25: whitespace / punctuation tokenisation
Tokens(t) ==
    CASE t = "wifi" -> <<"wifi">>
      [] t = "hours" -> <<"hours">>
      [] t = "wifi hours" -> <<"wifi", "hours">>
      [] OTHER -> <<>>

-----------------------------------------------------------------------------
(* Document store (shared.database.Database) *)

FaqIds == { faqs[i].answer_id : i \in 1..Len(faqs) }
IntentIds == { intents[i].intent_id : i \in 1..Len(intents) }

HasFaq(id) == id \in FaqIds
HasIntent(id) == id \in IntentIds

get_faq_by_id(id) == faqs[CHOOSE i \in 1..Len(faqs) : faqs[i].answer_id = id]
get_intent_by_id(id) == intents[CHOOSE i \in 1..Len(intents) : intents[i].intent_id = id]
get_intent_by_name(n) == { intents[i] : i \in { j \in 1..Len(intents) : intents[j].intent_name = n } }

-----------------------------------------------------------------------------
(* Lexical index (BM25Search) *)

\* corpus entries of one FAQ: the main question, then each alternative question
FaqDocs(f) ==
    <<[type |-> "faq", id |-> f.answer_id, phrase |-> f.question]>>
    \o [ i \in 1..Len(f.alternative_questions) |->
           [type |-> "faq", id |-> f.answer_id, phrase |-> f.alternative_questions[i]] ]

\* corpus entries of one Intent: one per trigger phrase
IntentDocs(it) ==
    [ i \in 1..Len(it.trigger_phrases) |->
        [type |-> "intent", id |-> it.intent_id, phrase |-> it.trigger_phrases[i]] ]

\* the phrases of the store, FAQs first, then Intents
ExpandStore(fs, its) ==
    Concat([ i \in 1..Len(fs) |-> FaqDocs(fs[i]) ])
    \o Concat([ i \in 1..Len(its) |-> IntentDocs(its[i]) ])

TokenizeDocs(docs) == [ i \in 1..Len(docs) |-> Tokens(docs[i].phrase) ]

NoBm25 == [built |-> FALSE, docs |-> <<>>]

\* BM25Search.__init__
NewBm25Search ==
    [corpus |-> <<>>, tokenized_corpus |-> <<>>, bm25 |-> NoBm25, initialized |-> FALSE]

\* BM25Search.initialize, as a function of the object's fields and the store
initialize(ix, fs, its) ==
    IF fs = <<>> /\ its = <<>>
    THEN ix                                      \* warning, early return
    ELSE LET c == ExpandStore(fs, its)
             t == TokenizeDocs(c)
         IN  IF t # <<>>
             THEN [corpus |-> c, tokenized_corpus |-> t,
                   bm25 |-> [built |-> TRUE, docs |-> t], initialized |-> TRUE]
             ELSE [ix EXCEPT !.corpus = c, !.tokenized_corpus = t]

\* BM25Okapi.get_scores for one document: a term-overlap score with length
\* normalisation; 0 when the document shares no token with the query
Score(docs, qtok, i) ==
    LET d == docs[i]
        m == Cardinality({ k \in 1..Len(qtok) : qtok[k] \in Range(d) })
    IN  IF Len(d) = 0 THEN 0 ELSE (12 * m) \div Len(d)

\* mutant: the seen_ids test dropped
Bm25UnseenNoDedup(seen, id) == TRUE

\* the guard of the deduplication in BM25Search.search
Bm25Unseen(seen, id) == id \notin seen

RECURSIVE Bm25Loop(_, _, _, _)
\* the loop over top_indices; indexing corpus past its end raises IndexError
Bm25Loop(ix, idxs, seen, acc) ==
    IF idxs = <<>> THEN [outcome |-> "ok", results |-> acc]
    ELSE LET e == Head(idxs) IN
         IF e.score[1] <= 0 THEN Bm25Loop(ix, Tail(idxs), seen, acc)
         ELSE IF e.idx > Len(ix.corpus) THEN [outcome |-> "error", results |-> <<>>]
         ELSE LET doc == ix.corpus[e.idx] IN
              IF Bm25Unseen(seen, doc.id)
              THEN Bm25Loop(ix, Tail(idxs), seen \cup {doc.id},
                            Append(acc, [type |-> doc.type, id |-> doc.id, score |-> e.score]))
              ELSE Bm25Loop(ix, Tail(idxs), seen, acc)

\* mutant: deduplication first, then the top_k entities
Bm25RankedEntities(ix, query, top_k) ==
    IF ~ix.initialized THEN [outcome |-> "ok", results |-> <<>>]
    ELSE LET qtok == Tokens(query) IN
         IF qtok = <<>> THEN [outcome |-> "ok", results |-> <<>>]
         ELSE LET scored == [ i \in 1..Len(ix.bm25.docs) |->
                                [idx |-> i, score |-> <<Score(ix.bm25.docs, qtok, i), 1>>] ]
                  r == Bm25Loop(ix, StableSortDesc(scored), {}, <<>>)
              IN  [r EXCEPT !.results = Prefix(r.results, top_k)]

\* BM25Search.search after the lazy initialisation: ix is the object as the
\* call leaves it
Bm25Ranked(ix, query, top_k) ==
    IF ~ix.initialized THEN [outcome |-> "ok", results |-> <<>>]
    ELSE LET qtok == Tokens(query) IN
         IF qtok = <<>> THEN [outcome |-> "ok", results |-> <<>>]
         ELSE LET scored == [ i \in 1..Len(ix.bm25.docs) |->
                                [idx |-> i, score |-> <<Score(ix.bm25.docs, qtok, i), 1>>] ]
                  top_indices == Prefix(StableSortDesc(scored), top_k)
              IN  Bm25Loop(ix, top_indices, {}, <<>>)

\* mutant: the lazy initialisation dropped from search
LazyInitNever(ix, fs, its) == ix

\* the object after the first two lines of BM25Search.search
LazyInit(ix, fs, its) ==
    IF ~ix.initialized \/ ~ix.bm25.built THEN initialize(ix, fs, its) ELSE ix

-----------------------------------------------------------------------------
(* Semantic index (VectorSearch) *)

\* add_faq / add_intent: the items one entity puts into the collection
FaqItems(f) == FaqDocs(f)
IntentItems(it) == IntentDocs(it)

\* cosine distance between the embeddings of two texts, in hundredths
Dist(q, p) ==
    IF p = q THEN 0
    ELSE IF Range(Tokens(q)) \cap Range(Tokens(p)) # {} THEN 30
    ELSE 80

\* collection.query: the n nearest items, nearest first
QueryCollection(coll, query, n) ==
    Prefix(StableSortDesc([ i \in 1..Len(coll) |->
               [item |-> coll[i], score |-> <<100 - Dist(query, coll[i].phrase), 1>>] ]), n)

\* the store lookup VectorSearch.search makes for a raw neighbour
VecResolves(item) ==
    IF item.type = "faq" THEN HasFaq(item.id) ELSE HasIntent(item.id)

RECURSIVE VecLoop(_, _, _)
VecLoop(raw, seen, acc) ==
    IF raw = <<>> THEN acc
    ELSE LET r == Head(raw) IN
         IF r.item.id \in seen THEN VecLoop(Tail(raw), seen, acc)
         ELSE IF VecResolves(r.item)
              THEN VecLoop(Tail(raw), seen \cup {r.item.id},
                           Append(acc, [type |-> r.item.type, id |-> r.item.id, score |-> r.score]))
              ELSE VecLoop(Tail(raw), seen \cup {r.item.id}, acc)

\* mutant: top_k raw neighbours requested, no over-fetch
VecRankedWithoutOverFetch(coll, query, top_k, raises, zero_rejected) ==
    IF raises THEN [outcome |-> "error", results |-> <<>>]
    ELSE IF top_k = 0 /\ zero_rejected THEN [outcome |-> "error", results |-> <<>>]
    ELSE [outcome |-> "ok",
          results |-> Prefix(VecLoop(QueryCollection(coll, query, top_k), {}, <<>>), top_k)]

\* VectorSearch.search.  raises: the embedding provider raises in encode;
\* zero_rejected: the collection rejects n_results = 0
VecRanked(coll, query, top_k, raises, zero_rejected) ==
    IF raises THEN [outcome |-> "error", results |-> <<>>]
    ELSE IF top_k * OverFetch = 0 /\ zero_rejected THEN [outcome |-> "error", results |-> <<>>]
    ELSE [outcome |-> "ok",
          results |-> Prefix(VecLoop(QueryCollection(coll, query, top_k * OverFetch), {}, <<>>), top_k)]

\* get_candidates of either index: (document_id, score) pairs
Candidates(results) == [ i \in 1..Len(results) |-> [id |-> results[i].id, score |-> results[i].score[1]] ]

-----------------------------------------------------------------------------
(* Fusion orchestrator (HybridRetrieval) *)

MinOf(xs) == CHOOSE m \in Range(xs) : \A x \in Range(xs) : m <= x
MaxOf(xs) == CHOOSE m \in Range(xs) : \A x \in Range(xs) : m >= x

\* mutant: the raw scores used without normalisation
NormalizeRaw(scores) == [ i \in 1..Len(scores) |-> <<scores[i], 1>> ]

\* mutant: the equal-scores case not told apart
NormalizeUnguarded(scores) ==
    IF scores = <<>> THEN <<>>
    ELSE [ i \in 1..Len(scores) |-> <<scores[i] - MinOf(scores), MaxOf(scores) - MinOf(scores)>> ]

\* HybridRetrieval._normalize_scores: min-max normalisation, as fractions
_normalize_scores(scores) ==
    IF scores = <<>> THEN <<>>
    ELSE LET min_score == MinOf(scores)
             max_score == MaxOf(scores)
         IN  IF max_score = min_score
             THEN [ i \in 1..Len(scores) |-> <<1, 1>> ]
             ELSE [ i \in 1..Len(scores) |-> <<scores[i] - min_score, max_score - min_score>> ]

\* {answer_id: norm_score for ... in zip(candidates, norm)}.get(id, 0.0):
\* a repeated key keeps its last value
DictGet(cands, norm, id) ==
    LET at == { i \in 1..Len(cands) : cands[i].id = id }
    IN  IF at = {} THEN <<0, 1>>
        ELSE norm[CHOOSE i \in at : \A j \in at : j <= i]

\* mutant: only the ids both sources returned
AllAnswerIdsOfBoth(bc, vc) == { bc[i].id : i \in 1..Len(bc) } \cap { vc[i].id : i \in 1..Len(vc) }

\* set(bm25_dict.keys()) | set(vector_dict.keys())
all_answer_ids(bc, vc) == { bc[i].id : i \in 1..Len(bc) } \cup { vc[i].id : i \in 1..Len(vc) }

\* the orders in which `for answer_id in all_answer_ids` may visit the set:
\* the iteration order of a set of str depends on the process's hash seed
IterationOrders(S) == Perms(S)

\* bm25_weight * bm25_score + vector_weight * vector_score
WeightedSum(wb, wv, x, y) == << wb * x[1] * y[2] + wv * y[1] * x[2], 10 * x[2] * y[2] >>

\* HybridRetrieval._fuse_scores, the set being visited in `order`
_fuse_scores(bc, vc, wb, wv, order) ==
    LET norm_bm25 == _normalize_scores([ i \in 1..Len(bc) |-> bc[i].score ])
        norm_vector == _normalize_scores([ i \in 1..Len(vc) |-> vc[i].score ])
        fused_scores == [ k \in 1..Len(order) |->
            [id |-> order[k],
             score |-> WeightedSum(wb, wv, DictGet(bc, norm_bm25, order[k]),
                                           DictGet(vc, norm_vector, order[k]))] ]
    IN  StableSortDesc(fused_scores)

\* mutant: Intent lookup first
ResolveTypeIntentFirst(id) ==
    IF HasIntent(id) THEN "intent" ELSE IF HasFaq(id) THEN "faq" ELSE "none"

\* which table answers for a fused id: FAQ lookup first, Intent lookup on a miss
ResolveType(id) ==
    IF HasFaq(id) THEN "faq" ELSE IF HasIntent(id) THEN "intent" ELSE "none"

RECURSIVE Resolve(_)
\* the loop over top_results in HybridRetrieval.search
Resolve(top_results) ==
    IF top_results = <<>> THEN <<>>
    ELSE LET h == Head(top_results)
             t == ResolveType(h.id)
         IN  IF t = "none" THEN Resolve(Tail(top_results))
             ELSE <<[type |-> t, id |-> h.id, score |-> h.score]>> \o Resolve(Tail(top_results))

Failed == [outcome |-> "error", results |-> <<>>]
Empty == [outcome |-> "ok", results |-> <<>>]

\* the hybrid branch once both candidate lists are known
HybridFused(bc, vc, top_k, order) ==
    IF bc = <<>> /\ vc = <<>> THEN Empty
    ELSE [outcome |-> "ok",
          results |-> Resolve(Prefix(_fuse_scores(bc, vc, cfg.bm25_weight, cfg.vector_weight, order), top_k))]

\* mutant: a provider failure caught and the lexical candidates used alone
HybridOutcomesDegrading(ix, query, top_k, raises) ==
    LET rb == Bm25Ranked(ix, query, TopKBm25)
        rv == VecRanked(collection, query, TopKVector, raises, FALSE)
    IN  IF rb.outcome = "error" THEN {Failed}
        ELSE LET bc == Candidates(rb.results)
                 vc == IF rv.outcome = "error" THEN <<>> ELSE Candidates(rv.results)
             IN  { HybridFused(bc, vc, top_k, order) : order \in IterationOrders(all_answer_ids(bc, vc)) }

\* the hybrid branch of HybridRetrieval.search; ix is the lexical index after
\* its lazy initialisation
HybridOutcomes(ix, query, top_k, raises) ==
    LET rb == Bm25Ranked(ix, query, TopKBm25)
        rv == VecRanked(collection, query, TopKVector, raises, FALSE)
    IN  IF rb.outcome = "error" \/ rv.outcome = "error" THEN {Failed}
        ELSE LET bc == Candidates(rb.results)
                 vc == Candidates(rv.results)
             IN  { HybridFused(bc, vc, top_k, order) : order \in IterationOrders(all_answer_ids(bc, vc)) }

\* the returned values HybridRetrieval.search may produce
SearchOutcomes(ix, query, top_k, method, raises, zero_rejected) ==
    IF Strip(query) = "" THEN {Empty}
    ELSE IF method = "bm25"
         THEN LET r == Bm25Ranked(ix, query, top_k)
              IN  { [r EXCEPT !.results = Prefix(r.results, top_k)] }
    ELSE IF method = "vector"
         THEN LET r == VecRanked(collection, query, top_k, raises, zero_rejected)
              IN  { [r EXCEPT !.results = Prefix(r.results, top_k)] }
    ELSE HybridOutcomes(ix, query, top_k, raises)

\* mutant: every lexical search rebuilds the index
IndexAfterSearchRebuilding(ix, query, method) ==
    IF Strip(query) # "" /\ method \in {"bm25", "hybrid"}
    THEN initialize(ix, faqs, intents)
    ELSE ix

\* the lexical index object as a search call leaves it
IndexAfterSearch(ix, query, method) ==
    IF Strip(query) # "" /\ method \in {"bm25", "hybrid"}
    THEN LazyInit(ix, faqs, intents)
    ELSE ix

\* whether the call reaches embedding_model.encode
CallsProvider(ix, query, method) ==
    /\ Strip(query) # ""
    /\ \/ method = "vector"
       \/ method = "hybrid" /\ Bm25Ranked(ix, query, TopKBm25).outcome = "ok"

NoSearch == [method |-> "none"]

\* the service endpoint hands the value of the finished call to its client
respond ==
    /\ last # NoSearch
    /\ last' = NoSearch
    /\ UNCHANGED <<faqs, intents, nops, bm25_search, collection, started, rbpc, hist, cfg, fz, px, adm, vad, nz, ws>>

\* HybridRetrieval.search(query, top_k, language="auto", method)
Search(query, top_k, method, raises, zero_rejected) ==
    /\ started
    /\ last = NoSearch
    /\ LET ix == IndexAfterSearch(bm25_search, query, method)
           asked == CallsProvider(ix, query, method)
       IN  /\ raises => asked
           /\ zero_rejected => (asked /\ ~raises /\ method = "vector" /\ top_k = 0)
           /\ bm25_search' = ix
           /\ \E r \in SearchOutcomes(ix, query, top_k, method, raises, zero_rejected) :
                last' = [method |-> method, query |-> query, top_k |-> top_k,
                         provider_raised |-> raises,
                         was_initialized |-> bm25_search.initialized,
                         outcome |-> r.outcome, results |-> r.results]
    /\ UNCHANGED <<faqs, intents, nops, collection, started, rbpc, hist, cfg, fz, px, adm, vad, nz, ws>>

-----------------------------------------------------------------------------
(* Admin service: FAQManager / IntentManager over the database *)

RemoveAt(s, i) == SubSeq(s, 1, i - 1) \o SubSeq(s, i + 1, Len(s))
FaqPos(id) == CHOOSE i \in 1..Len(faqs) : faqs[i].answer_id = id
IntentPos(id) == CHOOSE i \in 1..Len(intents) : intents[i].intent_id = id

\* mutant: a store mutation also refreshes the built lexical index
StoreFrameReindexing ==
    /\ hist' = [hist EXCEPT !.rebuilds = 0, !.written = (rbpc = "between")]
    /\ bm25_search' = IF bm25_search.initialized
                      THEN initialize(bm25_search, faqs', intents')
                      ELSE bm25_search
    /\ UNCHANGED <<collection, started, rbpc, cfg, fz, px, adm, vad, nz, ws>>

StoreFrame ==
    /\ hist' = [hist EXCEPT !.rebuilds = 0, !.written = (rbpc = "between")]
    /\ UNCHANGED <<bm25_search, collection, started, rbpc, cfg, fz, px, adm, vad, nz, ws>>

\* FAQManager.create_faq: db.create_faq draws answer_id = uuid4(), a fresh
\* primary key of the faq table
create_faq(id, content) ==
    /\ nops < MaxOps
    /\ id \notin FaqIds
    /\ faqs' = <<[answer_id |-> id, question |-> content.question,
                  alternative_questions |-> content.alternative_questions]>> \o faqs
    /\ nops' = nops + 1
    /\ last = NoSearch
    /\ UNCHANGED last
    /\ UNCHANGED intents
    /\ StoreFrame

\* FAQManager.update_faq with updates = {question, alternative_questions}
update_faq(id, content) ==
    /\ nops < MaxOps
    /\ id \in FaqIds
    /\ faqs' = [faqs EXCEPT ![FaqPos(id)] =
                  [answer_id |-> id, question |-> content.question,
                   alternative_questions |-> content.alternative_questions]]
    /\ faqs' # faqs
    /\ nops' = nops + 1
    /\ last = NoSearch
    /\ UNCHANGED last
    /\ UNCHANGED intents
    /\ StoreFrame

\* FAQManager.delete_faq
delete_faq(id) ==
    /\ nops < MaxOps
    /\ id \in FaqIds
    /\ faqs' = RemoveAt(faqs, FaqPos(id))
    /\ nops' = nops + 1
    /\ last = NoSearch
    /\ UNCHANGED last
    /\ UNCHANGED intents
    /\ StoreFrame

\* IntentManager.create_intent: a taken intent_name raises ValueError before
\* anything is written
create_intent(id, name, triggers) ==
    /\ nops < MaxOps
    /\ id \notin IntentIds
    /\ get_intent_by_name(name) = {}
    /\ intents' = <<[intent_id |-> id, intent_name |-> name, trigger_phrases |-> triggers]>> \o intents
    /\ nops' = nops + 1
    /\ last = NoSearch
    /\ UNCHANGED last
    /\ UNCHANGED faqs
    /\ StoreFrame

\* IntentManager.update_intent with updates = {intent_name, trigger_phrases}:
\* a name held by another intent raises ValueError before anything is written
update_intent(id, name, triggers) ==
    /\ nops < MaxOps
    /\ id \in IntentIds
    /\ \A e \in get_intent_by_name(name) : e.intent_id = id
    /\ intents' = [intents EXCEPT ![IntentPos(id)] =
                     [intent_id |-> id, intent_name |-> name, trigger_phrases |-> triggers]]
    /\ intents' # intents
    /\ nops' = nops + 1
    /\ last = NoSearch
    /\ UNCHANGED last
    /\ UNCHANGED faqs
    /\ StoreFrame

\* IntentManager.delete_intent
delete_intent(id) ==
    /\ nops < MaxOps
    /\ id \in IntentIds
    /\ intents' = RemoveAt(intents, IntentPos(id))
    /\ nops' = nops + 1
    /\ last = NoSearch
    /\ UNCHANGED last
    /\ UNCHANGED faqs
    /\ StoreFrame

-----------------------------------------------------------------------------
(* Retrieval service: startup and rebuild_indices *)

NoHist == [faqs |-> <<>>, intents |-> <<>>, collection |-> <<>>, rebuilds |-> 0, written |-> FALSE]

\* startup_event: bm25_search.initialize()
startup_event ==
    /\ ~started
    /\ started' = TRUE
    /\ bm25_search' = initialize(bm25_search, faqs, intents)
    /\ last = NoSearch
    /\ UNCHANGED last
    /\ UNCHANGED <<faqs, intents, nops, collection, rbpc, hist, cfg, fz, px, adm, vad, nz, ws>>

\* VectorSearch.rebuild_index: the collection is dropped and recreated, then
\* one add call per FAQ and per Intent; the call number fail_at + 1 raises
\* (fail_at = number of entities: none does)
vector_rebuild_index(fs, its, fail_at) ==
    LET adds == [ i \in 1..Len(fs) |-> FaqItems(fs[i]) ] \o [ i \in 1..Len(its) |-> IntentItems(its[i]) ]
    IN  Concat(Prefix(adds, fail_at))

\* mutant: the semantic index rebuilt first
RebuildFirstSemantic(ix, coll, fs, its, fail_at) ==
    [bm25_search |-> ix, collection |-> vector_rebuild_index(fs, its, fail_at)]

\* first statement of HybridRetrieval.rebuild_indices: bm25_search.rebuild_index()
RebuildFirst(ix, coll, fs, its, fail_at) ==
    [bm25_search |-> initialize(ix, fs, its), collection |-> coll]

\* mutant: the collection kept and the items added to it again
RebuildSecondAppending(ix, coll, fs, its, fail_at) ==
    [bm25_search |-> ix, collection |-> coll \o vector_rebuild_index(fs, its, fail_at)]

\* second statement: vector_search.rebuild_index()
RebuildSecond(ix, coll, fs, its, fail_at) ==
    [bm25_search |-> ix, collection |-> vector_rebuild_index(fs, its, fail_at)]

rebuild_lexical ==
    /\ started
    /\ rbpc = "idle"
    /\ \E fail_at \in 0..(Len(faqs) + Len(intents)) :
         LET r == RebuildFirst(bm25_search, collection, faqs, intents, fail_at)
         IN  /\ bm25_search' = r.bm25_search
             /\ collection' = r.collection
    /\ rbpc' = "between"
    /\ hist' = [faqs |-> faqs, intents |-> intents, collection |-> collection, rebuilds |-> hist.rebuilds,
                written |-> FALSE]
    /\ last = NoSearch
    /\ UNCHANGED last
    /\ UNCHANGED <<faqs, intents, nops, started, cfg, fz, px, adm, vad, nz, ws>>

rebuild_semantic ==
    /\ rbpc = "between"
    /\ \E fail_at \in 0..(Len(faqs) + Len(intents)) :
         LET r == RebuildSecond(bm25_search, collection, faqs, intents, fail_at)
         IN  /\ bm25_search' = r.bm25_search
             /\ collection' = r.collection
             /\ hist' = [NoHist EXCEPT !.rebuilds =
                            IF fail_at = Len(faqs) + Len(intents) /\ ~hist.written
                            THEN (IF hist.rebuilds < MaxRebuilds THEN hist.rebuilds + 1 ELSE MaxRebuilds)
                            ELSE 0]
    /\ rbpc' = "idle"
    /\ last = NoSearch
    /\ UNCHANGED last
    /\ UNCHANGED <<faqs, intents, nops, started, cfg, fz, px, adm, vad, nz, ws>>

-----------------------------------------------------------------------------
(* The engine with its store *)

PxIdle == [phase |-> "idle"]

AdmIdle == [op |-> "none"]

NoVad == [exists |-> FALSE]

NzIdle == [phase |-> "idle"]

WsIdle == [state |-> "none"]

FzIdle == [phase |-> "idle", bm25 |-> <<>>, vector |-> <<>>, order |-> <<>>, out |-> <<>>]

Init ==
    /\ faqs = <<>>
    /\ intents = <<>>
    /\ nops = 0
    /\ bm25_search = NewBm25Search
    /\ collection = <<>>
    /\ started = FALSE
    /\ rbpc = "idle"
    /\ hist = NoHist
    /\ last = NoSearch
    /\ cfg = [bm25_weight |-> DefaultBm25Weight, vector_weight |-> DefaultVectorWeight]
    /\ fz = FzIdle
    /\ px = PxIdle
    /\ adm = AdmIdle
    /\ vad = NoVad
    /\ nz = NzIdle
    /\ ws = WsIdle

DoCreateFaq == \E id \in Ids, c \in FaqContents : create_faq(id, c)
DoUpdateFaq == \E id \in Ids, c \in FaqContents : update_faq(id, c)
DoDeleteFaq == \E id \in Ids : delete_faq(id)
DoCreateIntent == \E id \in Ids, n \in Names, t \in TriggerLists : create_intent(id, n, t)
DoUpdateIntent == \E id \in Ids, n \in Names, t \in TriggerLists : update_intent(id, n, t)
DoDeleteIntent == \E id \in Ids : delete_intent(id)
DoSearch ==
    \E q \in Queries, k \in 0..MaxTopK, m \in Methods, raises \in BOOLEAN, zr \in BOOLEAN :
        Search(q, k, m, raises, zr)

Next ==
    \/ DoCreateFaq
    \/ DoUpdateFaq
    \/ DoDeleteFaq
    \/ DoCreateIntent
    \/ DoUpdateIntent
    \/ DoDeleteIntent
    \/ startup_event
    \/ rebuild_lexical
    \/ rebuild_semantic
    \/ DoSearch
    \/ respond

Spec == Init /\ [][Next]_vars

-----------------------------------------------------------------------------
(* The engine started over a database file that earlier runs of the admin   *)
(* service have filled: the faq and intent tables outlive the processes     *)

PersistedStores ==
    { [faqs |-> <<[answer_id |-> "u1", question |-> "wifi", alternative_questions |-> <<>>],
                  [answer_id |-> "u2", question |-> "wifi hours", alternative_questions |-> <<>>]>>,
       intents |-> <<>>],
      [faqs |-> <<>>,
       intents |-> <<[intent_id |-> "u1", intent_name |-> "n1",
                      trigger_phrases |-> <<"wifi", "wifi hours">>]>>] }

InitPersisted ==
    /\ \E st \in PersistedStores : faqs = st.faqs /\ intents = st.intents
    /\ nops = 0
    /\ bm25_search = NewBm25Search
    /\ collection = <<>>
    /\ started = FALSE
    /\ rbpc = "idle"
    /\ hist = NoHist
    /\ last = NoSearch
    /\ cfg = [bm25_weight |-> DefaultBm25Weight, vector_weight |-> DefaultVectorWeight]
    /\ fz = FzIdle
    /\ px = PxIdle
    /\ adm = AdmIdle
    /\ vad = NoVad
    /\ nz = NzIdle
    /\ ws = WsIdle

SpecPersisted == InitPersisted /\ [][Next]_vars

-----------------------------------------------------------------------------
(* The engine serving searches while nobody edits the store: the service    *)
(* has started over a filled database and rebuild_indices has returned      *)

ServedFaqContents ==
    FaqContents \cup { [question |-> "wifi hours", alternative_questions |-> <<>>] }

ServedFaqs ==
    UNION { { f \in [1..n -> [answer_id : Ids, question : {"wifi", "hours", "wifi hours"},
                              alternative_questions : {<<>>, <<"wifi hours">>}]] :
                /\ \A i, j \in 1..n : i # j => f[i].answer_id # f[j].answer_id
                /\ \A i \in 1..n :
                     [question |-> f[i].question,
                      alternative_questions |-> f[i].alternative_questions] \in ServedFaqContents }
            : n \in 0..Cardinality(Ids) }

ServedIntents ==
    {<<>>} \cup { <<[intent_id |-> id, intent_name |-> "n1", trigger_phrases |-> t]>> :
                    id \in Ids, t \in TriggerLists }

InitServing ==
    /\ faqs \in ServedFaqs
    /\ intents \in ServedIntents
    /\ nops = 0
    /\ bm25_search = initialize(NewBm25Search, faqs, intents)
    /\ collection = vector_rebuild_index(faqs, intents, Len(faqs) + Len(intents))
    /\ started = TRUE
    /\ rbpc = "idle"
    /\ hist = NoHist
    /\ last = NoSearch
    /\ cfg = [bm25_weight |-> DefaultBm25Weight, vector_weight |-> DefaultVectorWeight]
    /\ fz = FzIdle
    /\ px = PxIdle
    /\ adm = AdmIdle
    /\ vad = NoVad
    /\ nz = NzIdle
    /\ ws = WsIdle

NextServing ==
    \/ DoSearch
    \/ respond

SpecServing == InitServing /\ [][NextServing]_vars

-----------------------------------------------------------------------------
(* The engine configured with retrieval.bm25_weight = 1.0 and               *)
(* retrieval.vector_weight = 0.0                                            *)

InitLexicalWeights ==
    /\ faqs = <<>>
    /\ intents = <<>>
    /\ nops = 0
    /\ bm25_search = NewBm25Search
    /\ collection = <<>>
    /\ started = FALSE
    /\ rbpc = "idle"
    /\ hist = NoHist
    /\ last = NoSearch
    /\ cfg = [bm25_weight |-> 10, vector_weight |-> 0]
    /\ fz = FzIdle
    /\ px = PxIdle
    /\ adm = AdmIdle
    /\ vad = NoVad
    /\ nz = NzIdle
    /\ ws = WsIdle

SpecLexicalWeights == InitLexicalWeights /\ [][Next]_vars

-----------------------------------------------------------------------------
(* _fuse_scores on its own: candidate lists as the two get_candidates calls   *)
(* produce them (distinct ids, best score first; lexical scores positive)     *)

FuseIds == {"u1", "u2", "u3"}
Bm25ScoreValues == {6, 12}
VectorScoreValues == {-20, 70, 100}
WeightCfgs ==
    { [bm25_weight |-> 3, vector_weight |-> 7], [bm25_weight |-> 10, vector_weight |-> 0],
      [bm25_weight |-> 0, vector_weight |-> 10], [bm25_weight |-> 6, vector_weight |-> 7] }

CandidateLists(scores) ==
    UNION { { c \in [1..n -> [id : FuseIds, score : scores]] :
                /\ \A i, j \in 1..n : i # j => c[i].id # c[j].id
                /\ \A i \in 1..(n - 1) : c[i].score >= c[i + 1].score }
            : n \in 0..MaxCands }

InitFuse ==
    /\ faqs = <<>>
    /\ intents = <<>>
    /\ nops = 0
    /\ bm25_search = NewBm25Search
    /\ collection = <<>>
    /\ started = FALSE
    /\ rbpc = "idle"
    /\ hist = NoHist
    /\ last = NoSearch
    /\ cfg \in WeightCfgs
    /\ \E bc \in CandidateLists(Bm25ScoreValues), vc \in CandidateLists(VectorScoreValues) :
         fz = [phase |-> "in", bm25 |-> bc, vector |-> vc, order |-> <<>>, out |-> <<>>]
    /\ px = PxIdle
    /\ adm = AdmIdle
    /\ vad = NoVad
    /\ nz = NzIdle
    /\ ws = WsIdle

\* one call of HybridRetrieval._fuse_scores(bm25_candidates, vector_candidates)
fuse_call ==
    /\ fz.phase = "in"
    /\ \E order \in IterationOrders(all_answer_ids(fz.bm25, fz.vector)) :
         fz' = [fz EXCEPT !.phase = "out", !.order = order,
                          !.out = _fuse_scores(fz.bm25, fz.vector, cfg.bm25_weight, cfg.vector_weight, order)]
    /\ UNCHANGED <<faqs, intents, nops, bm25_search, collection, started, rbpc, hist, last, cfg, px, adm, vad, nz, ws>>

NextFuse == fuse_call

SpecFuse == InitFuse /\ [][NextFuse]_vars

-----------------------------------------------------------------------------
(* _normalize_scores on its own: any list of raw scores                     *)

MaxScores == 3   \* length of the list handed to _normalize_scores

RawScoreValues == {-20, 0, 70, 100}

InitNormalize ==
    /\ faqs = <<>>
    /\ intents = <<>>
    /\ nops = 0
    /\ bm25_search = NewBm25Search
    /\ collection = <<>>
    /\ started = FALSE
    /\ rbpc = "idle"
    /\ hist = NoHist
    /\ last = NoSearch
    /\ cfg = [bm25_weight |-> DefaultBm25Weight, vector_weight |-> DefaultVectorWeight]
    /\ fz = FzIdle
    /\ px = PxIdle
    /\ adm = AdmIdle
    /\ vad = NoVad
    /\ ws = WsIdle
    /\ \E n \in 0..MaxScores : \E scores \in [1..n -> RawScoreValues] :
         nz = [phase |-> "in", scores |-> scores, out |-> <<>>]

\* one call of HybridRetrieval._normalize_scores(scores)
normalize_call ==
    /\ nz.phase = "in"
    /\ nz' = [nz EXCEPT !.phase = "out", !.out = _normalize_scores(nz.scores)]
    /\ UNCHANGED <<faqs, intents, nops, bm25_search, collection, started, rbpc, hist, last, cfg, fz,
                   px, adm, vad, ws>>

NextNormalize == normalize_call

SpecNormalize == InitNormalize /\ [][NextNormalize]_vars

-----------------------------------------------------------------------------
(* Parameter extractor (ParameterExtractor).  A text is a sequence of       *)
(* one-character strings; a mapping is a function from slot names to texts. *)

Whitespace == {" ", "\n"}
IdentChars == {"a", "b", "x", "y", "A", "B"}

\* str.lower, character by character
LowerChar(c) == CASE c = "A" -> "a" [] c = "B" -> "b" [] OTHER -> c
lower(s) == [ i \in 1..Len(s) |-> LowerChar(s[i]) ]

RECURSIVE lstrip(_)
lstrip(s) == IF s # <<>> /\ Head(s) \in Whitespace THEN lstrip(Tail(s)) ELSE s

RECURSIVE rstrip(_)
rstrip(s) == IF s # <<>> /\ s[Len(s)] \in Whitespace THEN rstrip(SubSeq(s, 1, Len(s) - 1)) ELSE s

\* str.strip
strip(s) == rstrip(lstrip(s))

\* needle in hay
Contains(hay, needle) ==
    \E i \in 0..(Len(hay) - Len(needle)) : SubSeq(hay, i + 1, i + Len(needle)) = needle

\* slot_pattern \{([^}]+)\} tried at position i: the position of the closing
\* brace of the slot that starts there, 0 when none does
SlotEnd(text, i) ==
    IF text[i] = "{" /\ \E j \in (i + 2)..Len(text) : text[j] = "}" /\ \A k \in (i + 1)..(j - 1) : text[k] # "}"
    THEN CHOOSE j \in (i + 2)..Len(text) : text[j] = "}" /\ \A k \in (i + 1)..(j - 1) : text[k] # "}"
    ELSE 0

has_slots(trigger_phrase) ==
    \E i \in 1..Len(trigger_phrase) : SlotEnd(trigger_phrase, i) # 0

RECURSIVE PatternItems(_, _)
\* re.escape and the re.sub of convert_to_regex: every slot becomes a named
\* group (?P<name>.+), every other character a literal
PatternItems(text, i) ==
    IF i > Len(text) THEN <<>>
    ELSE IF SlotEnd(text, i) # 0
         THEN <<[kind |-> "group", v |-> SubSeq(text, i + 1, SlotEnd(text, i) - 1)]>>
              \o PatternItems(text, SlotEnd(text, i) + 1)
         ELSE <<[kind |-> "lit", v |-> <<text[i]>>]>> \o PatternItems(text, i + 1)

\* the group names of a pattern, in order
GroupNames(items) ==
    LET g == SelectSeq(items, LAMBDA it : it.kind = "group")
    IN  [ k \in 1..Len(g) |-> g[k].v ]

\* get_slots: the slot names in phrase order
get_slots(trigger_phrase) == GroupNames(PatternItems(trigger_phrase, 1))

\* convert_to_regex: the pattern, with \s*$ appended when the phrase, right
\* stripped, ends with a closing brace
convert_to_regex(trigger_phrase) ==
    [items |-> PatternItems(trigger_phrase, 1),
     anchored |-> LET t == rstrip(trigger_phrase) IN t # <<>> /\ t[Len(t)] = "}"]

\* mutant: re.compile accepts every pattern
CompileNeverFails(pattern) == FALSE

\* re.compile raises re.error: a group name that is no identifier, or a
\* group name used twice
CompileFails(pattern) ==
    LET names == GroupNames(pattern.items)
    IN  \/ \E k \in 1..Len(names) : names[k] = <<>> \/ \E c \in Range(names[k]) : c \notin IdentChars
        \/ \E k, l \in 1..Len(names) : k # l /\ names[k] = names[l]


\* the rest of the query is matched by \s*$ (anchored) or left alone
TailMatches(q, pos, anchored) ==
    anchored => \A k \in pos..Len(q) : q[k] \in Whitespace

RECURSIVE CanMatch(_, _, _, _)
\* the pattern items match the query from position pos on (re.IGNORECASE;
\* the dot of a group matches any character but a line break)
CanMatch(items, q, pos, anchored) ==
    IF items = <<>> THEN TailMatches(q, pos, anchored)
    ELSE IF Head(items).kind = "lit"
         THEN /\ pos <= Len(q)
              /\ LowerChar(q[pos]) = LowerChar(Head(items).v[1])
              /\ CanMatch(Tail(items), q, pos + 1, anchored)
         ELSE \E n \in 1..(Len(q) - pos + 1) :
                  /\ \A k \in pos..(pos + n - 1) : q[k] # "\n"
                  /\ CanMatch(Tail(items), q, pos + n, anchored)

\* the length a greedy group takes at pos: the longest that lets the rest match
GreedyLen(items, q, pos, anchored) ==
    LET ok == { n \in 1..(Len(q) - pos + 1) :
                  /\ \A k \in pos..(pos + n - 1) : q[k] # "\n"
                  /\ CanMatch(Tail(items), q, pos + n, anchored) }
    IN  CHOOSE n \in ok : \A m \in ok : m <= n

RECURSIVE GroupValues(_, _, _, _)
\* match.groupdict() of the match found at pos, as <<name, value>> entries
GroupValues(items, q, pos, anchored) ==
    IF items = <<>> THEN <<>>
    ELSE IF Head(items).kind = "lit" THEN GroupValues(Tail(items), q, pos + 1, anchored)
    ELSE LET n == GreedyLen(items, q, pos, anchored)
         IN  <<[name |-> Head(items).v, value |-> SubSeq(q, pos, pos + n - 1)]>>
             \o GroupValues(Tail(items), q, pos + n, anchored)

None == [found |-> FALSE, params |-> <<>>]

\* mutant: the group values returned untrimmed
ExtractParametersUntrimmed(query, trigger_phrase) ==
    IF ~has_slots(trigger_phrase) THEN [found |-> TRUE, params |-> <<>>]
    ELSE LET pattern == convert_to_regex(trigger_phrase)
             starts == { p \in 1..(Len(query) + 1) : CanMatch(pattern.items, query, p, pattern.anchored) }
         IN  IF CompileFails(pattern) \/ starts = {} THEN None
             ELSE LET g == GroupValues(pattern.items, query,
                                       CHOOSE p \in starts : \A r \in starts : p <= r, pattern.anchored)
                  IN  [found |-> TRUE,
                       params |-> [ nm \in { g[i].name : i \in 1..Len(g) } |->
                                      g[CHOOSE i \in 1..Len(g) : g[i].name = nm].value ]]

\* ParameterExtractor.extract_parameters: regex.search takes the leftmost
\* position at which the pattern matches
extract_parameters(query, trigger_phrase) ==
    IF ~has_slots(trigger_phrase) THEN [found |-> TRUE, params |-> <<>>]
    ELSE LET pattern == convert_to_regex(trigger_phrase)
             starts == { p \in 1..(Len(query) + 1) : CanMatch(pattern.items, query, p, pattern.anchored) }
         IN  IF CompileFails(pattern) \/ starts = {} THEN None
             ELSE LET g == GroupValues(pattern.items, query,
                                       CHOOSE p \in starts : \A r \in starts : p <= r, pattern.anchored)
                  IN  [found |-> TRUE,
                       params |-> [ nm \in { g[i].name : i \in 1..Len(g) } |->
                                      strip(g[CHOOSE i \in 1..Len(g) : g[i].name = nm].value) ]]

\* mutant: the substring test in one direction only
SubstringMatchOneWay(query_lower, trigger_lower) == Contains(query_lower, trigger_lower)

\* trigger_lower in query_lower or query_lower in trigger_lower
SubstringMatch(query_lower, trigger_lower) ==
    Contains(query_lower, trigger_lower) \/ Contains(trigger_lower, query_lower)

NoMatch == [matched |-> FALSE, phrase |-> <<>>, parameters |-> <<>>]

RECURSIVE MatchAndExtractLast(_, _)
\* mutant: the last matching phrase wins
MatchAndExtractLast(query, trigger_phrases) ==
    IF trigger_phrases = <<>> THEN NoMatch
    ELSE LET trigger == trigger_phrases[Len(trigger_phrases)]
             rest == SubSeq(trigger_phrases, 1, Len(trigger_phrases) - 1)
         IN  IF has_slots(trigger)
             THEN LET params == extract_parameters(query, trigger)
                  IN  IF params.found
                      THEN [matched |-> TRUE, phrase |-> <<trigger>>, parameters |-> params.params]
                      ELSE MatchAndExtractLast(query, rest)
             ELSE IF SubstringMatch(strip(lower(query)), strip(lower(trigger)))
                  THEN [matched |-> TRUE, phrase |-> <<trigger>>, parameters |-> <<>>]
                  ELSE MatchAndExtractLast(query, rest)

RECURSIVE match_and_extract(_, _)
\* ParameterExtractor.match_and_extract; the phrase of the result is <<>> for
\* None and <<phrase>> for a matched phrase
match_and_extract(query, trigger_phrases) ==
    IF trigger_phrases = <<>> THEN NoMatch
    ELSE LET trigger == Head(trigger_phrases)
         IN  IF has_slots(trigger)
             THEN LET params == extract_parameters(query, trigger)
                  IN  IF params.found
                      THEN [matched |-> TRUE, phrase |-> <<trigger>>, parameters |-> params.params]
                      ELSE match_and_extract(query, Tail(trigger_phrases))
             ELSE IF SubstringMatch(strip(lower(query)), strip(lower(trigger)))
                  THEN [matched |-> TRUE, phrase |-> <<trigger>>, parameters |-> <<>>]
                  ELSE match_and_extract(query, Tail(trigger_phrases))

-----------------------------------------------------------------------------
(* The parameter extractor on its own: one extract_parameters call on a      *)
(* query made by substituting values into a phrase, or one match_and_extract *)
(* call on a query and the trigger phrases of an Intent                      *)

MaxValueLen == 2   \* length of a value substituted for a slot
MaxPhrases == 2    \* number of trigger phrases handed to match_and_extract

PhA == <<"a", "{", "x", "}">>
PhAB == <<"a", "{", "x", "}", "b", "{", "y", "}">>
PhXB == <<"{", "x", "}", "b">>
PhDup == <<"{", "x", "}", "b", "{", "x", "}">>
PhBadName == <<"a", "{", " ", "}">>
PlainAB == <<"a", "b">>
PlainB == <<" ", "B">>
PlainBraces == <<"a", "{", "}">>

SlottedPhrases == {PhA, PhAB, PhXB, PhDup}
TriggerPhrases == SlottedPhrases \cup {PhBadName, PlainAB, PlainB, PlainBraces}

ValueChars == {"a", "b", " ", "\n"}
Values == UNION { [1..n -> ValueChars] : n \in 1..MaxValueLen }

Styles == {"exact", "upper", "prefixed"}

MatchQueries ==
    { <<>>, <<"a", "b">>, <<"A", "B", " ">>, <<"b">>, <<"a">>,
      <<"a", "a", "b", "b">>, <<"b", "a", "b">>, <<"a", "{", "}">>, <<"B", " ">> }

UpperChar(c) == CASE c = "a" -> "A" [] c = "b" -> "B" [] OTHER -> c

\* the query a user makes of a phrase: every slot replaced by its value, the
\* literal text kept (exact), upper-cased (upper) or preceded by other text
\* (prefixed)
Substitute(trigger_phrase, vals, style) ==
    LET items == PatternItems(trigger_phrase, 1)
        body == Concat([ i \in 1..Len(items) |->
                           IF items[i].kind = "group" THEN vals[items[i].v]
                           ELSE IF style = "upper" THEN <<UpperChar(items[i].v[1])>>
                           ELSE items[i].v ])
    IN  IF style = "prefixed" THEN <<"b", " ">> \o body ELSE body

InitExtract ==
    /\ faqs = <<>>
    /\ intents = <<>>
    /\ nops = 0
    /\ bm25_search = NewBm25Search
    /\ collection = <<>>
    /\ started = FALSE
    /\ rbpc = "idle"
    /\ hist = NoHist
    /\ last = NoSearch
    /\ cfg = [bm25_weight |-> DefaultBm25Weight, vector_weight |-> DefaultVectorWeight]
    /\ fz = FzIdle
    /\ \/ \E ph \in SlottedPhrases, style \in Styles :
            \E vals \in [Range(get_slots(ph)) -> Values] :
                px = [phase |-> "in", op |-> "extract", phrase |-> ph, values |-> vals,
                      style |-> style, query |-> Substitute(ph, vals, style),
                      phrases |-> <<>>, out |-> <<>>]
       \/ \E q \in MatchQueries, n \in 0..MaxPhrases :
            \E phs \in [1..n -> TriggerPhrases] :
                px = [phase |-> "in", op |-> "match", phrase |-> <<>>, values |-> <<>>,
                      style |-> "exact", query |-> q, phrases |-> phs, out |-> <<>>]
    /\ adm = AdmIdle
    /\ vad = NoVad
    /\ nz = NzIdle
    /\ ws = WsIdle

\* one call of ParameterExtractor.extract_parameters(query, trigger_phrase)
extract_call ==
    /\ px.phase = "in"
    /\ px.op = "extract"
    /\ px' = [px EXCEPT !.phase = "out", !.out = extract_parameters(px.query, px.phrase)]
    /\ UNCHANGED <<faqs, intents, nops, bm25_search, collection, started, rbpc, hist, last, cfg, fz, adm, vad, nz, ws>>

\* one call of ParameterExtractor.match_and_extract(query, trigger_phrases)
match_call ==
    /\ px.phase = "in"
    /\ px.op = "match"
    /\ px' = [px EXCEPT !.phase = "out", !.out = match_and_extract(px.query, px.phrases)]
    /\ UNCHANGED <<faqs, intents, nops, bm25_search, collection, started, rbpc, hist, last, cfg, fz, adm, vad, nz, ws>>

NextExtract == extract_call \/ match_call

SpecExtract == InitExtract /\ [][NextExtract]_vars

-----------------------------------------------------------------------------
(* The admin service's intent endpoints on their own: every request is      *)
(* answered, with the created / updated intent or with an error             *)

MaxRequests == 3   \* admin requests per behaviour

Absent == "-"      \* no intent_name among the updates

\* mutant: any holder of the name counts, the intent itself included
NameConflictWithAnyHolder(id, name) == get_intent_by_name(name) # {}

\* update_intent: existing and existing.intent_id != intent_id
NameConflict(id, name) == \E e \in get_intent_by_name(name) : e.intent_id # id

\* intent_name TEXT NOT NULL UNIQUE: the row id would share its name with
\* another row
UniqueViolated(id, name) ==
    \E i \in 1..Len(intents) : intents[i].intent_name = name /\ intents[i].intent_id # id

Answer(op, id, name, triggers, outcome) ==
    [op |-> op, id |-> id, name |-> name, triggers |-> triggers, outcome |-> outcome,
     before |-> intents]

IntentsFrame ==
    /\ nops' = nops + 1
    /\ UNCHANGED <<faqs, bm25_search, collection, started, rbpc, hist, last, cfg, fz, px, vad, nz, ws>>

\* POST /admin/intent -> IntentManager.create_intent -> db.create_intent
create_intent_request(id, name, triggers) ==
    /\ nops < MaxRequests
    /\ id \notin IntentIds
    /\ IF get_intent_by_name(name) # {}
       THEN /\ adm' = Answer("create", id, name, triggers, "ValueError")
            /\ UNCHANGED intents
       ELSE IF UniqueViolated(id, name)
       THEN /\ adm' = Answer("create", id, name, triggers, "IntegrityError")
            /\ UNCHANGED intents
       ELSE /\ adm' = Answer("create", id, name, triggers, "ok")
            /\ intents' = <<[intent_id |-> id, intent_name |-> name, trigger_phrases |-> triggers]>>
                          \o intents
    /\ IntentsFrame

\* PUT /admin/intent/{intent_id} -> IntentManager.update_intent ->
\* db.update_intent, with updates = {trigger_phrases} or
\* {intent_name, trigger_phrases}
update_intent_request(id, name, triggers) ==
    /\ nops < MaxRequests
    /\ IF name # Absent /\ NameConflict(id, name)
       THEN /\ adm' = Answer("update", id, name, triggers, "ValueError")
            /\ UNCHANGED intents
       ELSE IF id \notin IntentIds
       THEN /\ adm' = Answer("update", id, name, triggers, "not_found")
            /\ UNCHANGED intents
       ELSE IF name # Absent /\ UniqueViolated(id, name)
       THEN /\ adm' = Answer("update", id, name, triggers, "IntegrityError")
            /\ UNCHANGED intents
       ELSE /\ adm' = Answer("update", id, name, triggers, "ok")
            /\ intents' = [intents EXCEPT ![IntentPos(id)] =
                             [intent_id |-> id,
                              intent_name |-> IF name = Absent THEN @.intent_name ELSE name,
                              trigger_phrases |-> triggers]]
    /\ IntentsFrame

\* DELETE /admin/intent/{intent_id} -> IntentManager.delete_intent
delete_intent_request(id) ==
    /\ nops < MaxRequests
    /\ IF id \in IntentIds
       THEN /\ adm' = Answer("delete", id, Absent, <<>>, "ok")
            /\ intents' = RemoveAt(intents, IntentPos(id))
       ELSE /\ adm' = Answer("delete", id, Absent, <<>>, "not_found")
            /\ UNCHANGED intents
    /\ IntentsFrame

DoCreateIntentRequest ==
    \E id \in Ids, n \in Names, t \in TriggerLists : create_intent_request(id, n, t)
DoUpdateIntentRequest ==
    \E id \in Ids, n \in Names \cup {Absent}, t \in TriggerLists : update_intent_request(id, n, t)
DoDeleteIntentRequest == \E id \in Ids : delete_intent_request(id)

NextIntents ==
    \/ DoCreateIntentRequest
    \/ DoUpdateIntentRequest
    \/ DoDeleteIntentRequest

SpecIntents == Init /\ [][NextIntents]_vars

-----------------------------------------------------------------------------
(* Streaming ASR: the VAD detector (VADDetector) and the /asr/stream         *)
(* WebSocket endpoint (websocket_streaming_asr).  Audio is counted in       *)
(* samples; a chunk is its number of samples and whether the Silero model   *)
(* rates it at or above the threshold.                                      *)

MaxMessages == 5   \* messages a client sends over one connection

SampleRate == 16000
DefaultMinSilenceForSentenceMs == 500
DefaultMinSilenceForSessionMs == 1500
NoSample == -1     \* speech_start_sample / silence_start_sample = None

ChunkSizes == {4000, 8000, 24000}    \* 250 ms, 500 ms and 1500 ms of audio
Transcriptions == {"text", "empty", "raises"}

\* the config a client may send: the keys it holds and their values
ClientConfigs ==
    { [keys |-> {},
       values |-> [min_silence_for_sentence_ms |-> 0, min_silence_for_session_ms |-> 0]],
      [keys |-> {"min_silence_for_sentence_ms", "min_silence_for_session_ms"},
       values |-> [min_silence_for_sentence_ms |-> 250, min_silence_for_session_ms |-> 1000]] }

DefaultVadConfig ==
    [min_silence_for_sentence_ms |-> DefaultMinSilenceForSentenceMs,
     min_silence_for_session_ms |-> DefaultMinSilenceForSessionMs]

\* vad_config.update(client_config)
update(vad_config, client_config) ==
    [ k \in DOMAIN vad_config |->
        IF k \in client_config.keys THEN client_config.values[k] ELSE vad_config[k] ]

\* VADDetector.reset
reset(v) ==
    [v EXCEPT !.audio_buffer = <<>>, !.is_speaking = FALSE, !.speech_start_sample = NoSample,
              !.silence_start_sample = NoSample, !.total_samples = 0]

\* VADDetector.__init__ as the endpoint calls it
VADDetector(vad_config) ==
    [exists |-> TRUE,
     min_silence_for_sentence_ms |-> vad_config.min_silence_for_sentence_ms,
     min_silence_for_session_ms |-> vad_config.min_silence_for_session_ms,
     audio_buffer |-> <<>>, is_speaking |-> FALSE, speech_start_sample |-> NoSample,
     silence_start_sample |-> NoSample, total_samples |-> 0]

RECURSIVE SumSeq(_)
SumSeq(s) == IF s = <<>> THEN 0 ELSE Head(s) + SumSeq(Tail(s))

NoAudio == [present |-> FALSE, samples |-> 0]

\* np.concatenate(self.audio_buffer)
Concatenate(audio_buffer) == [present |-> TRUE, samples |-> SumSeq(audio_buffer)]

\* (silence_duration_samples / sample_rate) * 1000 >= ms
DurationAtLeast(samples, ms) == samples * 1000 >= ms * SampleRate

\* lines 147-167: the buffer and the counters, then speech start / silence
\* start / speech continues
Track(v, chunk_samples, speech) ==
    LET w == [v EXCEPT !.audio_buffer = Append(@, chunk_samples),
                       !.total_samples = @ + chunk_samples]
    IN  IF ~w.is_speaking /\ speech
        THEN [w EXCEPT !.is_speaking = TRUE,
                       !.speech_start_sample = w.total_samples - chunk_samples,
                       !.silence_start_sample = NoSample]
        ELSE IF w.is_speaking /\ ~speech
        THEN IF w.silence_start_sample = NoSample
             THEN [w EXCEPT !.silence_start_sample = w.total_samples - chunk_samples]
             ELSE w
        ELSE IF w.is_speaking /\ speech
        THEN [w EXCEPT !.silence_start_sample = NoSample]
        ELSE w

\* mutant: a sentence end resets the detector as a session end does
ProcessChunkResettingOnSentence(v, chunk_samples, speech) ==
    LET w == Track(v, chunk_samples, speech)
        silence_duration_samples == w.total_samples - w.silence_start_sample
    IN  IF w.is_speaking /\ w.silence_start_sample # NoSample
           /\ DurationAtLeast(silence_duration_samples, w.min_silence_for_sentence_ms)
        THEN [vad |-> reset(w),
              out |-> [is_speaking |-> FALSE, sentence_ended |-> TRUE,
                       session_ended |-> DurationAtLeast(silence_duration_samples,
                                                         w.min_silence_for_session_ms),
                       complete_audio |-> Concatenate(w.audio_buffer)]]
        ELSE [vad |-> w,
              out |-> [is_speaking |-> w.is_speaking, sentence_ended |-> FALSE,
                       session_ended |-> FALSE, complete_audio |-> NoAudio]]

\* VADDetector.process_chunk: the detector after the call and the tuple the
\* call returns
process_chunk(v, chunk_samples, speech) ==
    LET w == Track(v, chunk_samples, speech)
        silence_duration_samples == w.total_samples - w.silence_start_sample
    IN  IF w.is_speaking /\ w.silence_start_sample # NoSample
           /\ DurationAtLeast(silence_duration_samples, w.min_silence_for_session_ms)
        THEN [vad |-> reset(w),
              out |-> [is_speaking |-> FALSE, sentence_ended |-> TRUE, session_ended |-> TRUE,
                       complete_audio |-> Concatenate(w.audio_buffer)]]
        ELSE IF w.is_speaking /\ w.silence_start_sample # NoSample
                /\ DurationAtLeast(silence_duration_samples, w.min_silence_for_sentence_ms)
        THEN [vad |-> [w EXCEPT !.audio_buffer = <<>>, !.silence_start_sample = NoSample],
              out |-> [is_speaking |-> w.is_speaking, sentence_ended |-> TRUE,
                       session_ended |-> FALSE, complete_audio |-> Concatenate(w.audio_buffer)]]
        ELSE [vad |-> w,
              out |-> [is_speaking |-> w.is_speaking, sentence_ended |-> FALSE,
                       session_ended |-> FALSE, complete_audio |-> NoAudio]]

NoOut == [called |-> FALSE]

\* the messages the endpoint sends for one audio message
AudioReplies(out, transcription) ==
    (IF out.is_speaking /\ ~out.sentence_ended
     THEN <<[type |-> "status", status |-> "speaking"]>> ELSE <<>>)
    \o (IF out.sentence_ended /\ out.complete_audio.present
        THEN <<[type |-> "status", status |-> "transcribing"]>>
             \o (CASE transcription = "text" ->
                        <<[type |-> "result", session_ended |-> out.session_ended]>>
                   [] transcription = "empty" -> <<>>
                   [] OTHER -> <<[type |-> "error"]>>)
        ELSE IF out.session_ended /\ ~out.complete_audio.present
        THEN <<[type |-> "session_end"]>>
        ELSE <<>>)

StreamFrame ==
    UNCHANGED <<faqs, intents, nops, bm25_search, collection, started, rbpc, hist, last, cfg, fz,
                px, adm, nz>>

\* the state of the connection after one more message has been handled
Handled(type, sent, out, state, quiet) ==
    [ws EXCEPT !.state = state, !.nmsg = @ + 1, !.received = type, !.sent = sent, !.out = out,
               !.quiet = quiet]

\* {"type": "config", "config": client_config}
config_message(client_config) ==
    /\ ws.state = "open"
    /\ ws.nmsg < MaxMessages
    /\ LET c == update(ws.vad_config, client_config)
       IN  /\ vad' = VADDetector(c)
           /\ ws' = [Handled("config", <<[type |-> "config_ack", config |-> c]>>, NoOut, "open", 0)
                       EXCEPT !.vad_config = c]
    /\ StreamFrame

\* {"type": "audio", "data": ...}: one well-formed chunk of PCM audio.  quiet
\* counts the samples of the silent chunks received in a row while the
\* detector was speaking, up to a session end.
audio_message(chunk_samples, speech, transcription) ==
    /\ ws.state = "open"
    /\ ws.nmsg < MaxMessages
    /\ LET v == IF vad.exists THEN vad ELSE VADDetector(ws.vad_config)
           r == process_chunk(v, chunk_samples, speech)
           transcribes == r.out.sentence_ended /\ r.out.complete_audio.present
       IN  /\ transcription # "text" => transcribes
           /\ vad' = r.vad
           /\ ws' = Handled("audio", AudioReplies(r.out, transcription),
                            [called |-> TRUE, was_speaking |-> v.is_speaking, speech |-> speech,
                             chunk_samples |-> chunk_samples,
                             is_speaking |-> r.out.is_speaking,
                             sentence_ended |-> r.out.sentence_ended,
                             session_ended |-> r.out.session_ended,
                             complete_audio |-> r.out.complete_audio],
                            "open",
                            IF v.is_speaking /\ ~speech /\ ~r.out.session_ended
                            THEN ws.quiet + chunk_samples ELSE 0)
    /\ StreamFrame

\* {"type": "reset"}: vad.reset() on None raises AttributeError, which the
\* handler around the receive loop catches: an error message is sent and the
\* endpoint returns
reset_message ==
    /\ ws.state = "open"
    /\ ws.nmsg < MaxMessages
    /\ IF vad.exists
       THEN /\ vad' = reset(vad)
            /\ ws' = Handled("reset", <<[type |-> "status", status |-> "reset"]>>, NoOut, "open", 0)
       ELSE /\ vad' = vad
            /\ ws' = Handled("reset", <<[type |-> "error"]>>, NoOut, "closed", 0)
    /\ StreamFrame

\* the client goes away: receive_json raises WebSocketDisconnect
disconnect ==
    /\ ws.state = "open"
    /\ ws' = [ws EXCEPT !.state = "closed", !.received = "disconnect", !.sent = <<>>, !.out = NoOut]
    /\ UNCHANGED vad
    /\ StreamFrame

\* await websocket.accept() and the lines up to the receive loop
InitStream ==
    /\ faqs = <<>>
    /\ intents = <<>>
    /\ nops = 0
    /\ bm25_search = NewBm25Search
    /\ collection = <<>>
    /\ started = FALSE
    /\ rbpc = "idle"
    /\ hist = NoHist
    /\ last = NoSearch
    /\ cfg = [bm25_weight |-> DefaultBm25Weight, vector_weight |-> DefaultVectorWeight]
    /\ fz = FzIdle
    /\ px = PxIdle
    /\ adm = AdmIdle
    /\ vad = NoVad
    /\ nz = NzIdle
    /\ ws = [state |-> "open", vad_config |-> DefaultVadConfig, nmsg |-> 0, received |-> "none",
             sent |-> <<>>, out |-> NoOut, quiet |-> 0]

DoConfigMessage == \E c \in ClientConfigs : config_message(c)
DoAudioMessage ==
    \E n \in ChunkSizes, speech \in BOOLEAN, t \in Transcriptions : audio_message(n, speech, t)

NextStream ==
    \/ DoConfigMessage
    \/ DoAudioMessage
    \/ reset_message
    \/ disconnect

SpecStream == InitStream /\ [][NextStream]_vars

-----------------------------------------------------------------------------
(* Properties *)

\* a step in which a HybridRetrieval.search call runs and returns
SearchStep == last = NoSearch /\ last' # NoSearch

\* a search step whose call reaches BM25Search.search
LexicalSearchStep ==
    SearchStep /\ last'.method \in {"bm25", "hybrid"} /\ Strip(last'.query) # ""

Searched == last # NoSearch

IdsOf(docs) == { docs[i].id : i \in 1..Len(docs) }

\* C1: whatever the query, top_k and method, the list a search returns holds
\* no two results with the same entity id, also when several indexed phrases
\* of one entity match the query.
C1_NoDuplicateEntityIds ==
    Searched =>
        \A i, j \in 1..Len(last.results) : i # j => last.results[i].id # last.results[j].id

\* C1 witness: a lexical search with top_k = 2 returned one entity although two
\* of its indexed phrases score positive for the query.
C1_Witness ==
    /\ Searched
    /\ last.method = "bm25"
    /\ last.top_k = 2
    /\ Len(last.results) = 1
    /\ Cardinality({ i \in 1..Len(bm25_search.corpus) :
                       /\ bm25_search.corpus[i].id = last.results[1].id
                       /\ i <= Len(bm25_search.bm25.docs)
                       /\ Score(bm25_search.bm25.docs, Tokens(last.query), i) > 0 }) >= 2

\* C2 (as claimed): every result a search returns, with any method, refers to
\* a FAQ or Intent that is in the document store at query time.
C2_NoStaleResult ==
    Searched =>
        \A i \in 1..Len(last.results) :
            IF last.results[i].type = "faq" THEN HasFaq(last.results[i].id)
            ELSE HasIntent(last.results[i].id)

\* C3 (as claimed): when the lexical rebuild returns, the indexed phrases are
\* exactly the expansion of the FAQs and Intents then in the store, whatever
\* the index held before and also when the store has become empty.
C3_RebuildReplacesIndex ==
    [][ (rbpc = "idle" /\ rbpc' = "between")
          => bm25_search'.corpus = ExpandStore(faqs, intents) ]_vars

C7_ProviderFailurePropagates ==
    Searched =>
        /\ last.provider_raised => (last.outcome = "error" /\ last.results = <<>>)
        /\ last.method = "bm25" => ~last.provider_raised

\* C7 witness: a hybrid search failed on the provider although the lexical
\* index had candidates for the query.
C7_Witness ==
    /\ Searched
    /\ last.method = "hybrid"
    /\ last.provider_raised
    /\ last.outcome = "error"
    /\ Bm25Ranked(bm25_search, last.query, TopKBm25).results # <<>>

\* the order in which the claim says the union is built: lexical candidates in
\* rank order, then the semantic-only candidates in rank order
FirstEncounterOrder(bc, vc) ==
    [ i \in 1..Len(bc) |-> bc[i].id ]
    \o SelectSeq([ i \in 1..Len(vc) |-> vc[i].id ],
                 LAMBDA id : id \notin { bc[i].id : i \in 1..Len(bc) })

\* C8 (as claimed): the fused list is the union sorted by descending fused
\* score with ties in first-encounter order, so it is a function of the two
\* candidate lists alone.
C8_TiesInFirstEncounterOrder ==
    fz.phase = "out" =>
        fz.out = _fuse_scores(fz.bm25, fz.vector, cfg.bm25_weight, cfg.vector_weight,
                              FirstEncounterOrder(fz.bm25, fz.vector))

\* C9: every hybrid result is resolved FAQ first: it is of type faq exactly
\* when its id is a FAQ of the store, and of type intent only when the id is
\* no FAQ but an Intent.
C9_FaqFirstResolution ==
    (Searched /\ last.method = "hybrid") =>
        \A i \in 1..Len(last.results) :
            LET r == last.results[i] IN
            /\ r.type = "faq" <=> HasFaq(r.id)
            /\ r.type = "intent" => (~HasFaq(r.id) /\ HasIntent(r.id))

\* C9 witness: a hybrid result of type faq for an id that is both a FAQ and
\* an Intent of the store.
C9_Witness ==
    /\ Searched
    /\ last.method = "hybrid"
    /\ \E i \in 1..Len(last.results) :
         /\ last.results[i].type = "faq"
         /\ HasFaq(last.results[i].id)
         /\ HasIntent(last.results[i].id)

WeightsSumToOne ==
    cfg.bm25_weight >= 0 /\ cfg.vector_weight >= 0 /\ cfg.bm25_weight + cfg.vector_weight = 10

\* C10: with non-negative weights that sum to 1, every fused score lies in
\* [0, 1].
C10_FusedScoreInUnitInterval ==
    (fz.phase = "out" /\ WeightsSumToOne) =>
        \A k \in 1..Len(fz.out) :
            /\ fz.out[k].score[2] > 0
            /\ 0 <= fz.out[k].score[1]
            /\ fz.out[k].score[1] <= fz.out[k].score[2]

\* C10 witness: a fusion of two lists of two candidates, one raw similarity
\* negative, produced a fused score of exactly 1 and one strictly below 1.
C10_Witness ==
    /\ fz.phase = "out"
    /\ WeightsSumToOne
    /\ cfg.bm25_weight > 0 /\ cfg.vector_weight > 0
    /\ Len(fz.bm25) = 2 /\ Len(fz.vector) = 2
    /\ \E i \in 1..Len(fz.vector) : fz.vector[i].score < 0
    /\ \E k \in 1..Len(fz.out) : fz.out[k].score[1] = fz.out[k].score[2]
    /\ \E k \in 1..Len(fz.out) : fz.out[k].score[1] < fz.out[k].score[2]

\* the normalized score the claim gives an id on one side: min-max over that
\* side's candidates, 1 when all of them score alike, 0 when the id is absent
NormOnSide(cands, id) ==
    LET at == { i \in 1..Len(cands) : cands[i].id = id }
        all == { cands[i].score : i \in 1..Len(cands) }
        lo == CHOOSE m \in all : \A x \in all : m <= x
        hi == CHOOSE m \in all : \A x \in all : m >= x
    IN  IF at = {} THEN <<0, 1>>
        ELSE IF hi = lo THEN <<1, 1>>
        ELSE <<cands[CHOOSE i \in at : TRUE].score - lo, hi - lo>>

\* C11: the fused list covers the union of the two candidate lists: every id
\* of either list appears in it exactly once, with score
\* w_bm25 * norm_bm25(id) + w_vector * norm_vector(id), an absent side counting
\* 0; nothing else is in the list.
C11_FusionCoversUnion ==
    fz.phase = "out" =>
        /\ \A id \in IdsOf(fz.bm25) \cup IdsOf(fz.vector) :
             /\ Cardinality({ k \in 1..Len(fz.out) : fz.out[k].id = id }) = 1
             /\ \A k \in 1..Len(fz.out) :
                  fz.out[k].id = id =>
                      FracEq(fz.out[k].score,
                             WeightedSum(cfg.bm25_weight, cfg.vector_weight,
                                         NormOnSide(fz.bm25, id), NormOnSide(fz.vector, id)))
        /\ IdsOf(fz.out) \subseteq IdsOf(fz.bm25) \cup IdsOf(fz.vector)

\* C11 witness: a fusion whose output holds an id only the lexical list has
\* and an id only the semantic list has, next to one both have.
C11_Witness ==
    /\ fz.phase = "out"
    /\ cfg.bm25_weight > 0 /\ cfg.vector_weight > 0
    /\ \E a, b, c \in IdsOf(fz.out) :
         /\ a \in IdsOf(fz.bm25) /\ a \notin IdsOf(fz.vector)
         /\ b \in IdsOf(fz.vector) /\ b \notin IdsOf(fz.bm25)
         /\ c \in IdsOf(fz.bm25) /\ c \in IdsOf(fz.vector)

ResultIds(results) == [ i \in 1..Len(results) |-> results[i].id ]

\* C12 (as claimed): with weights bm25 = 1.0 and vector = 0.0 a hybrid search
\* returns the same sequence of entity ids as a bm25 search with the same
\* query and top_k.
C12_HybridReproducesBm25 ==
    (Searched /\ last.method = "hybrid" /\ last.outcome = "ok"
       /\ cfg.bm25_weight = 10 /\ cfg.vector_weight = 0) =>
        \A r \in SearchOutcomes(bm25_search, last.query, last.top_k, "bm25", FALSE, FALSE) :
            ResultIds(last.results) = ResultIds(r.results)

\* the fused entries of the hybrid search that has just returned: their
\* scores do not depend on the order in which the union was visited
FusedOfLast ==
    LET bc == Candidates(Bm25Ranked(bm25_search, last.query, TopKBm25).results)
        vc == Candidates(VecRanked(collection, last.query, TopKVector, FALSE, FALSE).results)
    IN  Range(_fuse_scores(bc, vc, cfg.bm25_weight, cfg.vector_weight,
                           CHOOSE order \in IterationOrders(all_answer_ids(bc, vc)) : TRUE))

\* C13 (as claimed): a hybrid search returns at most top_k results in
\* non-increasing order of fused score, and with top_k = 1 and at least one
\* candidate that resolves to an entity of the store it returns exactly one
\* result, the resolvable entity with the highest fused score.
C13_TopKBestResolvable ==
    (Searched /\ last.method = "hybrid" /\ last.outcome = "ok" /\ Strip(last.query) # "") =>
        /\ Len(last.results) <= last.top_k
        /\ \A i, j \in 1..Len(last.results) :
             i < j => ~FracGt(last.results[j].score, last.results[i].score)
        /\ (last.top_k = 1 /\ \E e \in FusedOfLast : ResolveType(e.id) # "none")
             => /\ Len(last.results) = 1
                /\ ResolveType(last.results[1].id) # "none"
                /\ \A e \in FusedOfLast :
                     ResolveType(e.id) # "none" => ~FracGt(e.score, last.results[1].score)

\* the empty and the whitespace-only queries of the model
BlankQueries == {"", " "}

\* C14: a search with an empty or whitespace-only query returns the empty
\* list without raising, for any top_k and method and whatever the indexes
\* hold.
C14_BlankQueryReturnsEmpty ==
    (Searched /\ last.query \in BlankQueries) =>
        (last.outcome = "ok" /\ last.results = <<>> /\ ~last.provider_raised)

\* C14 witness: a whitespace-only hybrid query with top_k = 2 returned
\* nothing although both indexes hold phrases of entities of the store.
C14_Witness ==
    /\ Searched
    /\ last.query = " "
    /\ last.method = "hybrid"
    /\ last.top_k = 2
    /\ last.results = <<>>
    /\ bm25_search.initialized
    /\ \E i \in 1..Len(collection) : VecResolves(collection[i])

\* C15 (as claimed): a search with top_k = 0 returns the empty list without
\* raising, for every query and every method (the embedding provider
\* answering).
C15_TopKZeroReturnsEmpty ==
    (Searched /\ last.top_k = 0 /\ ~last.provider_raised) =>
        (last.outcome = "ok" /\ last.results = <<>>)

\* C16 (as claimed): with an empty document store, once rebuild_indices has
\* returned, a hybrid search with top_k = 1 returns the empty list and raises
\* no error, whatever the indexes held before the rebuild.
C16_EmptyStoreRebuildThenSearch ==
    (Searched /\ last.method = "hybrid" /\ last.top_k = 1 /\ Strip(last.query) # ""
       /\ ~last.provider_raised
       /\ faqs = <<>> /\ intents = <<>> /\ hist.rebuilds >= 1) =>
        (last.outcome = "ok" /\ last.results = <<>>)

\* C17: rebuild_indices is idempotent: when a call has returned and the store
\* has not been written since, a further call leaves the lexical index fields
\* and, when it returns, the semantic collection exactly as they were, so
\* every later search reads the same index state.
C17_RebuildIdempotent ==
    [][ /\ (rbpc = "idle" /\ rbpc' = "between" /\ hist.rebuilds >= 1)
             => bm25_search' = bm25_search
        /\ (rbpc = "between" /\ rbpc' = "idle" /\ hist.rebuilds >= 1 /\ hist'.rebuilds > 0)
             => collection' = collection ]_vars

\* C17 witness: two rebuild_indices calls in a row have returned over a store
\* with a FAQ and an Intent, both indexes holding their phrases.
C17_Witness ==
    /\ hist.rebuilds = 2
    /\ rbpc = "idle"
    /\ faqs # <<>> /\ intents # <<>>
    /\ bm25_search.initialized
    /\ bm25_search.corpus = ExpandStore(faqs, intents)
    /\ collection # <<>>

Extracted == px.phase = "out" /\ px.op = "extract"
Matched == px.phase = "out" /\ px.op = "match"

\* whether match_and_extract accepts one phrase for a query
Accepts(query, trigger) ==
    IF has_slots(trigger) THEN extract_parameters(query, trigger).found
    ELSE \/ Contains(strip(lower(query)), strip(lower(trigger)))
         \/ Contains(strip(lower(trigger)), strip(lower(query)))

\* C18: match_and_extract is first-match-wins over the stored order: it
\* returns the lowest-indexed phrase that matches the query, with that
\* phrase's parameters, and (false, none, empty mapping) exactly when no
\* phrase matches.
C18_FirstMatchWins ==
    Matched =>
        LET hits == { i \in 1..Len(px.phrases) : Accepts(px.query, px.phrases[i]) }
        IN  IF hits = {} THEN px.out = NoMatch
            ELSE LET first == CHOOSE i \in hits : \A j \in hits : i <= j
                 IN  /\ px.out.matched
                     /\ px.out.phrase = <<px.phrases[first]>>
                     /\ px.out.parameters = extract_parameters(px.query, px.phrases[first]).params

\* C18 witness: two different phrases both match the query, the later one
\* would bind more slots, and the first is returned.
C18_Witness ==
    /\ Matched
    /\ Len(px.phrases) = 2
    /\ Accepts(px.query, px.phrases[1]) /\ Accepts(px.query, px.phrases[2])
    /\ Len(get_slots(px.phrases[1])) = 1 /\ Len(get_slots(px.phrases[2])) = 2
    /\ ~CompileFails(convert_to_regex(px.phrases[2]))
    /\ px.out.phrase = <<px.phrases[1]>>

\* the mapping the claim expects of a round trip
TrimmedValues == [ nm \in DOMAIN px.values |-> strip(px.values[nm]) ]

\* C19 (as claimed): for a slotted phrase whose slots are separated by
\* literal text, the query obtained by substituting non-empty values for the
\* slots yields a mapping with exactly the phrase's slot names, each bound to
\* its substituted value trimmed, the phrase matching case-insensitively and
\* anywhere inside the query.
C19_RoundTrip ==
    Extracted =>
        /\ px.out.found
        /\ DOMAIN px.out.params = Range(get_slots(px.phrase))
        /\ px.out.params = TrimmedValues

RECURSIVE Readings(_, _, _)
\* the ways to read the query from position pos to its end as the phrase with
\* non-empty values in its slots: the values of the slots, in phrase order
Readings(items, q, pos) ==
    IF items = <<>> THEN (IF pos = Len(q) + 1 THEN {<<>>} ELSE {})
    ELSE IF Head(items).kind = "lit"
         THEN IF pos <= Len(q) /\ LowerChar(q[pos]) = LowerChar(Head(items).v[1])
              THEN Readings(Tail(items), q, pos + 1)
              ELSE {}
         ELSE UNION { { <<SubSeq(q, pos, pos + n - 1)>> \o r : r \in Readings(Tail(items), q, pos + n) }
                      : n \in 1..(Len(q) - pos + 1) }

\* the phrase is well formed: its slot names are identifiers, each used once
WellFormed(trigger_phrase) ==
    LET names == get_slots(trigger_phrase)
    IN  /\ \A k \in 1..Len(names) : \A c \in Range(names[k]) : c \in IdentChars
        /\ \A k, l \in 1..Len(names) : k # l => names[k] # names[l]

\* the text before the phrase cannot begin a match: the phrase starts with a
\* literal character that the preceding text does not hold
PrefixSkipped ==
    px.style = "prefixed" =>
        LET items == PatternItems(px.phrase, 1)
        IN  items[1].kind = "lit" /\ LowerChar(items[1].v[1]) \notin {"b", " "}

\* C19 (amended): for a well-formed slotted phrase and non-empty values without
\* line breaks, extraction succeeds and binds exactly the phrase's slot names;
\* each slot is bound to its substituted value, trimmed, when the query can be
\* read as the phrase in one way only (a greedy slot otherwise takes the
\* longest text that lets the rest match) and no match begins in text before
\* the phrase; a phrase that does not compile gives none.
C19_RoundTripWhenUnambiguous ==
    Extracted =>
        /\ ~WellFormed(px.phrase) => px.out = None
        /\ (WellFormed(px.phrase) /\ \A nm \in DOMAIN px.values : "\n" \notin Range(px.values[nm]))
             => /\ px.out.found
                /\ DOMAIN px.out.params = Range(get_slots(px.phrase))
                /\ (PrefixSkipped
                      /\ Cardinality(Readings(PatternItems(px.phrase, 1), px.query,
                                              IF px.style = "prefixed" THEN 3 ELSE 1)) = 1)
                     => px.out.params = TrimmedValues

\* C19 witness: a two-slot phrase, upper-cased in the query, with a value
\* that carries surrounding whitespace, read in one way only and extracted.
C19_Witness ==
    /\ Extracted
    /\ px.phrase = PhAB
    /\ px.style = "upper"
    /\ \E nm \in DOMAIN px.values : px.values[nm] # strip(px.values[nm]) /\ strip(px.values[nm]) # <<>>
    /\ Cardinality(Readings(PatternItems(px.phrase, 1), px.query, 1)) = 1
    /\ px.out.found
    /\ px.out.params = TrimmedValues

\* C20: a trigger phrase without slots matches a query exactly when, both
\* lower-cased and trimmed, the phrase is a substring of the query or the
\* query is a substring of the phrase; the match carries the phrase and an
\* empty parameter mapping.
C20_PlainPhraseSubstringEitherWay ==
    (Matched /\ px.phrases # <<>> /\ ~has_slots(px.phrases[1])) =>
        LET query_lower == strip(lower(px.query))
            trigger_lower == strip(lower(px.phrases[1]))
        IN  IF Contains(query_lower, trigger_lower) \/ Contains(trigger_lower, query_lower)
            THEN px.out = [matched |-> TRUE, phrase |-> <<px.phrases[1]>>, parameters |-> <<>>]
            ELSE px.out.phrase # <<px.phrases[1]>>

\* C20 witness: an upper-case query with trailing whitespace that is, once
\* lower-cased and trimmed, a proper part of the phrase, matched with an empty
\* mapping.
C20_Witness ==
    /\ Matched
    /\ Len(px.phrases) = 1
    /\ ~has_slots(px.phrases[1])
    /\ px.query # strip(lower(px.query))
    /\ Contains(strip(lower(px.phrases[1])), strip(lower(px.query)))
    /\ ~Contains(strip(lower(px.query)), strip(lower(px.phrases[1])))
    /\ px.out = [matched |-> TRUE, phrase |-> <<px.phrases[1]>>, parameters |-> <<>>]


\* a slotted phrase whose generated pattern does not compile
Malformed(trigger_phrase) == has_slots(trigger_phrase) /\ ~WellFormed(trigger_phrase)

\* C21: a malformed slotted phrase never raises to the caller:
\* extract_parameters returns none for it, and match_and_extract skips it and
\* goes on with the remaining phrases in order, so the result is the one the
\* call gives for the list without the malformed phrases.
C21_MalformedPhraseSkipped ==
    /\ (Extracted /\ Malformed(px.phrase)) => px.out = None
    /\ Matched =>
         /\ \A i \in 1..Len(px.phrases) :
              Malformed(px.phrases[i])
                => /\ extract_parameters(px.query, px.phrases[i]) = None
                   /\ px.out.phrase # <<px.phrases[i]>>
         /\ px.out = match_and_extract(px.query,
                                       SelectSeq(px.phrases, LAMBDA ph : ~Malformed(ph)))

\* C21 witness: the first phrase is malformed although its text fits the
\* query, and the well-formed slotted phrase after it matched and bound its
\* slot.
C21_Witness ==
    /\ Matched
    /\ Len(px.phrases) = 2
    /\ px.phrases[1] = PhDup
    /\ \E p \in 1..(Len(px.query) + 1) : CanMatch(PatternItems(PhDup, 1), px.query, p, TRUE)
    /\ has_slots(px.phrases[2]) /\ WellFormed(px.phrases[2])
    /\ px.out.matched
    /\ px.out.phrase = <<px.phrases[2]>>
    /\ DOMAIN px.out.parameters # {}


NamesIn(its) == { its[i].intent_name : i \in 1..Len(its) }

\* C22: no two stored intents share an intent_name; a create with a name that
\* is held, or a rename to a name another intent holds, is answered with an
\* error and leaves the store as it was, while an update that names the
\* intent's own current name is carried out.
C22_IntentNamesUnique ==
    /\ \A i, j \in 1..Len(intents) : i # j => intents[i].intent_name # intents[j].intent_name
    /\ (adm.op = "create" /\ adm.name \in NamesIn(adm.before))
         => (adm.outcome \in {"ValueError", "IntegrityError"} /\ intents = adm.before)
    /\ (adm.op = "update"
          /\ \E i \in 1..Len(adm.before) :
               adm.before[i].intent_name = adm.name /\ adm.before[i].intent_id # adm.id)
         => (adm.outcome \in {"ValueError", "IntegrityError"} /\ intents = adm.before)
    /\ (adm.op = "update"
          /\ \E i \in 1..Len(adm.before) :
               adm.before[i].intent_name = adm.name /\ adm.before[i].intent_id = adm.id)
         => /\ adm.outcome = "ok"
            /\ \E i \in 1..Len(intents) :
                 intents[i] = [intent_id |-> adm.id, intent_name |-> adm.name,
                               trigger_phrases |-> adm.triggers]

\* C22 witness: with two intents stored, a rename of one to the other's name
\* was answered with an error and the store kept both names.
C22_Witness ==
    /\ adm.op = "update"
    /\ adm.outcome = "ValueError"
    /\ Len(intents) = 2
    /\ adm.id \in IntentIds
    /\ get_intent_by_id(adm.id).intent_name # adm.name
    /\ adm.name \in NamesIn(intents)
    /\ intents = adm.before


\* C23 (as claimed): once speech has started, the chunk that completes a
\* continuous silence of min_silence_for_session_ms makes process_chunk
\* report session_ended, whatever the sizes of the chunks: no silence of that
\* length is ever on record without a session end.
C23_SilenceEndsSession ==
    (ws.state = "open" /\ vad.exists)
        => ~DurationAtLeast(ws.quiet, vad.min_silence_for_session_ms)

\* C28 (as claimed): a reset message received at any point after the
\* connection is accepted resets the VAD state, is answered with a status
\* "reset" message and leaves the connection open.
C28_ResetAlwaysServed ==
    (ws.state # "none" /\ ws.received = "reset") =>
        /\ ws.sent = <<[type |-> "status", status |-> "reset"]>>
        /\ ws.state = "open"
        /\ vad.exists /\ vad = reset(vad)

\* the detector is in the state reset() leaves
IsReset(v) ==
    /\ ~v.is_speaking
    /\ v.audio_buffer = <<>>
    /\ v.total_samples = 0

C24_NormalizeIntoUnitInterval ==
    nz.phase = "out" =>
        LET scores == nz.scores
            out == nz.out
            equal == \A i, j \in 1..Len(scores) : scores[i] = scores[j]
        IN  /\ Len(out) = Len(scores)
            /\ \A i \in 1..Len(out) :
                 /\ out[i][2] > 0
                 /\ 0 <= out[i][1] /\ out[i][1] <= out[i][2]
            /\ equal => \A i \in 1..Len(out) : FracEq(out[i], <<1, 1>>)
            /\ ~equal =>
                 /\ \A i \in 1..Len(out) :
                      /\ (\A j \in 1..Len(scores) : scores[i] <= scores[j]) => out[i][1] = 0
                      /\ (\A j \in 1..Len(scores) : scores[i] >= scores[j]) => FracEq(out[i], <<1, 1>>)
                 /\ \A i, j \in 1..Len(out) :
                      /\ scores[i] < scores[j] => FracGt(out[j], out[i])
                      /\ scores[i] = scores[j] => FracEq(out[i], out[j])

\* C24 witness: three different scores, one of them negative, normalized to
\* 0, a value strictly between 0 and 1, and 1.
C24_Witness ==
    /\ nz.phase = "out"
    /\ Len(nz.scores) = 3
    /\ \E i \in 1..3 : nz.scores[i] < 0
    /\ \A i, j \in 1..3 : i # j => nz.scores[i] # nz.scores[j]
    /\ \E i \in 1..3 : nz.out[i][1] > 0 /\ nz.out[i][1] < nz.out[i][2]


\* the score the BM25 model of the index gives phrase i for the last query
PhraseScore(i) == Score(bm25_search.bm25.docs, Tokens(last.query), i)

\* the positions of the top_k phrases by score: a phrase is preceded by the
\* phrases that score higher and by the earlier phrases that score alike
TopPhrases ==
    { i \in 1..Len(bm25_search.bm25.docs) :
        Cardinality({ j \in 1..Len(bm25_search.bm25.docs) :
                        \/ PhraseScore(j) > PhraseScore(i)
                        \/ PhraseScore(j) = PhraseScore(i) /\ j < i }) < last.top_k }

\* C25: a lexical search takes the top_k phrases by score, discards the
\* non-positive ones and deduplicates by owning entity: every returned
\* candidate scores strictly positive, the candidates are in non-increasing
\* score order, at most top_k, exactly the entities that own a positive phrase
\* among the top_k phrases, each with the score of its best such phrase.
C25_LexicalTopKThenDedup ==
    (Searched /\ last.method = "bm25" /\ last.outcome = "ok" /\ Strip(last.query) # "") =>
        LET hits == { i \in TopPhrases : PhraseScore(i) > 0 }
        IN  /\ Len(last.results) <= last.top_k
            /\ \A k \in 1..Len(last.results) : last.results[k].score[1] > 0
            /\ \A k, l \in 1..Len(last.results) :
                 k < l => ~FracGt(last.results[l].score, last.results[k].score)
            /\ IdsOf(last.results) = { bm25_search.corpus[i].id : i \in hits }
            /\ \A k \in 1..Len(last.results) :
                 LET own == { i \in hits : bm25_search.corpus[i].id = last.results[k].id }
                 IN  /\ \E i \in own : last.results[k].score = <<PhraseScore(i), 1>>
                     /\ \A i \in own : PhraseScore(i) <= last.results[k].score[1]

\* C25 witness: with top_k = 2 both top phrases belong to one entity, so one
\* candidate is returned although a phrase of another entity scores positive
\* below them.
C25_Witness ==
    /\ Searched
    /\ last.method = "bm25"
    /\ last.top_k = 2
    /\ last.outcome = "ok"
    /\ Len(last.results) = 1
    /\ \E i \in 1..Len(bm25_search.bm25.docs) :
         /\ i \notin TopPhrases
         /\ PhraseScore(i) > 0
         /\ i <= Len(bm25_search.corpus)
         /\ bm25_search.corpus[i].id # last.results[1].id


\* the 2 * top_k nearest items of the collection for the last query
RawNeighbours == QueryCollection(collection, last.query, 2 * last.top_k)

\* the positions among them that hold the first (nearest) item of an entity
\* id and whose entity is in the store
KeptNeighbours ==
    { i \in 1..Len(RawNeighbours) :
        /\ \A j \in 1..(i - 1) : RawNeighbours[j].item.id # RawNeighbours[i].item.id
        /\ VecResolves(RawNeighbours[i].item) }

\* C26: a semantic search takes the 2 * top_k nearest items, turns each
\* distance d into the similarity 1 - d, keeps the first item of each entity
\* id and cuts the list to top_k entities: at most top_k candidates, each
\* entity id once, in non-increasing similarity order, and none on an empty
\* store.
C26_SemanticOverFetchDedupTruncate ==
    (Searched /\ last.method = "vector" /\ last.outcome = "ok" /\ Strip(last.query) # "") =>
        /\ Len(last.results) <= last.top_k
        /\ Len(last.results) = IF Cardinality(KeptNeighbours) < last.top_k
                               THEN Cardinality(KeptNeighbours) ELSE last.top_k
        /\ \A k \in 1..Len(last.results) :
             \E i \in KeptNeighbours :
                 /\ Cardinality({ j \in KeptNeighbours : j < i }) = k - 1
                 /\ last.results[k].id = RawNeighbours[i].item.id
                 /\ last.results[k].score =
                        <<100 - Dist(last.query, RawNeighbours[i].item.phrase), 1>>
        /\ \A k, l \in 1..Len(last.results) :
             k < l => /\ last.results[k].id # last.results[l].id
                      /\ ~FracGt(last.results[l].score, last.results[k].score)
        /\ (faqs = <<>> /\ intents = <<>>) => last.results = <<>>

\* C26 witness: with top_k = 2 the two nearest items belong to one entity and
\* the second candidate comes from the over-fetched neighbours, with a lower
\* similarity.
C26_Witness ==
    /\ Searched
    /\ last.method = "vector"
    /\ last.outcome = "ok"
    /\ last.top_k = 2
    /\ Len(last.results) = 2
    /\ Len(RawNeighbours) >= 3
    /\ RawNeighbours[1].item.id = RawNeighbours[2].item.id
    /\ FracGt(last.results[1].score, last.results[2].score)


\* the entity ids that have a phrase in the lexical index
LexicalIndexedIds == { bm25_search.corpus[i].id : i \in 1..Len(bm25_search.corpus) }

\* the entity ids that have an item in the semantic index
SemanticIndexedIds == { collection[i].id : i \in 1..Len(collection) }

\* C27: a step that creates, updates or deletes an entity leaves the lexical
\* index and the semantic index as they were: the indexed phrases stay those
\* of the last rebuild.
C27_CrudLeavesIndexesUnchanged ==
    [][(faqs' # faqs \/ intents' # intents)
          => (bm25_search' = bm25_search /\ collection' = collection)]_vars

\* C27 witness: both indexes are built over the same entities, and an entity
\* created since then is in the store and in neither index.
C27_Witness ==
    /\ bm25_search.initialized
    /\ collection # <<>>
    /\ LexicalIndexedIds = SemanticIndexedIds
    /\ nops = 2
    /\ \E id \in FaqIds \cup IntentIds : id \notin LexicalIndexedIds


\* C30: whenever the lexical index is marked initialized, the corpus list,
\* the tokenized corpus and the BM25 model describe the same phrases in the
\* same order, so every position the BM25 model scores is a position of the
\* corpus.
C30_LexicalIndexConsistent ==
    bm25_search.initialized =>
        /\ Len(bm25_search.tokenized_corpus) = Len(bm25_search.corpus)
        /\ bm25_search.tokenized_corpus = TokenizeDocs(bm25_search.corpus)
        /\ bm25_search.bm25.built
        /\ bm25_search.bm25.docs = bm25_search.tokenized_corpus

====
